---- MODULE Spec2Model ----
(***************************************************************************)
(* The Markov guess generator of pcfg_manager/markov_cracker.py:           *)
(* MarkovCracker.load_markov_stats builds the statistics (markov_stats,    *)
(* start_letter) line by line, MarkovIndex holds one session's cursor, and *)
(* MarkovCracker.next_guess / dig_deeper / dig_wider_base advance it.      *)
(***************************************************************************)
EXTENDS Integers, Sequences, FiniteSets, TLC

\* ------------------------------------------------------------------ values

\* Python's None where a letter, or a returned string, is expected.
None == "None"

\* markov_index.guess = None.  The code never holds an empty list (a `del
\* guess[-1]` happens only at length > 1), so the empty sequence is free to
\* stand for "no list".
NoGuess == << >>

\* self.min_level = None / self.max_level = None of a MarkovCracker.
NoLevel == -1

\* What next_guess hands back when a dictionary lookup raises KeyError.
KeyError == "KeyError"

\* The characters of the statistics files explored.
Letters == {"a", "b"}

\* Probabilities a statistics line may carry: 0 .. MaxProb.
MaxProb == 1

Probs == 0 .. MaxProb

\* min_level and max_level of a session are drawn from 0 .. MaxLevel.
MaxLevel == 2

Levels == 0 .. MaxLevel

\* next_guess is called at most MaxCalls times on one MarkovIndex.
MaxCalls == 6

\* One next_guess call is followed for at most MaxSteps loop iterations.
MaxSteps == 12

\* The cursor is persisted and reloaded at most MaxReloads times.
MaxReloads == 1

\* The MarkovIndex objects of a run; object 0 is the MarkovCracker itself,
\* which carries the same four session fields.
Sessions == {1, 2}

Self == 0

Objects == {Self} \cup Sessions

VARIABLES
    markov_stats,   \* self.markov_stats: letter -> node
    start_letter,   \* self.start_letter
    prev_proba1,    \* load_markov_stats' local prev_proba1
    phase,          \* "loading", "ready" (constructed) or "failed" (raised)
    objs,           \* object -> [min_level, max_level, guess, guess_level]
    pc,             \* session -> "none", "idle", "dig", "widen"
    hist,           \* session -> what its next_guess calls returned, in order
    steps,          \* session -> loop iterations of the call in progress
    visited,        \* session -> <<letter, level>> seen by the running dig_deeper
    reloads,        \* session -> the call counts at which its cursor was
                    \*            replaced by a copy
    order           \* the sessions next_guess was called on, in call order

vars == << markov_stats, start_letter, prev_proba1, phase,
           objs, pc, hist, steps, visited, reloads, order >>

model_vars == << markov_stats, start_letter, prev_proba1, phase >>

\* ------------------------------------------------------------- dictionaries

EmptyDict == [k \in {} |-> None]

\* d[k] = v
Put(d, k, v) == [x \in (DOMAIN d) \cup {k} |-> IF x = k THEN v ELSE d[x]]

Last(s) == s[Len(s)]

ButLast(s) == SubSeq(s, 1, Len(s) - 1)

\* guess[-1] = c
SetLast(s, c) == [s EXCEPT ![Len(s)] = c]

\* ''.join(guess)
RECURSIVE Join(_)
Join(guess) == IF guess = << >> THEN "" ELSE Head(guess) \o Join(Tail(guess))

\* ------------------------------------------------------------------ loader

\* The dictionary stored for a letter by a "=proba1" line.
Node(prob) ==
    [ probability       |-> prob,
      following_letters |-> EmptyDict,
      first_child       |-> None,
      last_child        |-> None,
      next              |-> None ]

\* The dictionary stored for a following letter by a "=proba2" line.
Edge(prob) == [ probability |-> prob, next |-> None ]

\* markov_stats after a "=proba1" line: the node is stored (replacing any
\* node the letter had), then the previous proba1 letter is linked to it.
StatsAfterProba1(stats, prev, letter, prob) ==
    LET stored == Put(stats, letter, Node(prob))
    IN  IF prev # None
        THEN [stored EXCEPT ![prev].next = letter]
        ELSE stored

\* NodeAfterProba2 with first_child set by every line, not only while it is
\* None.
NodeAfterProba2FirstChildReset(node, letter2, prob) ==
    LET stored == Put(node.following_letters, letter2, Edge(prob))
        linked == IF node.last_child # None
                  THEN [stored EXCEPT ![node.last_child].next = letter2]
                  ELSE stored
    IN  [ node EXCEPT !.following_letters = linked,
                      !.first_child = letter2,
                      !.last_child = letter2 ]

\* The node of letter1 after a "=proba2" line for letter2: the edge is stored
\* (replacing any edge letter2 had), the old last child is linked to letter2,
\* first_child is set if it was None, last_child becomes letter2.
NodeAfterProba2(node, letter2, prob) ==
    LET stored == Put(node.following_letters, letter2, Edge(prob))
        linked == IF node.last_child # None
                  THEN [stored EXCEPT ![node.last_child].next = letter2]
                  ELSE stored
    IN  [ node EXCEPT !.following_letters = linked,
                      !.first_child = IF node.first_child = None
                                      THEN letter2 ELSE node.first_child,
                      !.last_child = letter2 ]

\* The four session fields MarkovCracker.__init__ sets on the cracker itself.
SelfSession ==
    [ min_level |-> NoLevel, max_level |-> NoLevel,
      guess |-> NoGuess, guess_level |-> 0 ]

\* MarkovIndex.__init__: the bounds are stored as given, with no check.
MarkovIndex(min_level, max_level) ==
    [ min_level |-> min_level, max_level |-> max_level,
      guess |-> NoGuess, guess_level |-> 0 ]

session_vars == << objs, pc, hist, steps, visited, reloads, order >>

\* A line holding '=proba1'.
LoadProba1(letter, prob) ==
    /\ phase = "loading"
    /\ markov_stats' = StatsAfterProba1(markov_stats, prev_proba1, letter, prob)
    /\ start_letter' = IF start_letter = None THEN letter ELSE start_letter
    /\ prev_proba1' = letter
    /\ UNCHANGED << phase, session_vars >>

\* A line holding '=proba2'.  A letter1 with no node raises KeyError, which
\* the except clause turns into `return None`, and __init__ then raises.
LoadProba2(letter1, letter2, prob) ==
    /\ phase = "loading"
    /\ IF letter1 \in DOMAIN markov_stats
       THEN /\ markov_stats' =
                 [markov_stats EXCEPT
                    ![letter1] = NodeAfterProba2(@, letter2, prob)]
            /\ UNCHANGED phase
       ELSE /\ phase' = "failed"
            /\ UNCHANGED markov_stats
    /\ UNCHANGED << start_letter, prev_proba1, session_vars >>

\* A line of neither shape: `return None`, and __init__ raises.
LoadInvalid ==
    /\ phase = "loading"
    /\ phase' = "failed"
    /\ UNCHANGED << markov_stats, start_letter, prev_proba1, session_vars >>

\* open() raises before any line is read: `return None`, and __init__ raises.
OpenFails ==
    /\ phase = "loading"
    /\ DOMAIN markov_stats = {}
    /\ phase' = "failed"
    /\ UNCHANGED << markov_stats, start_letter, prev_proba1, session_vars >>

\* End of file: load_markov_stats returns True and __init__ sets the
\* cracker's own session fields.  (rule_directory = None skips the load and
\* ends in the same state as an empty file.)
LoadDone ==
    /\ phase = "loading"
    /\ phase' = "ready"
    /\ objs' = [objs EXCEPT ![Self] = SelfSession]
    /\ UNCHANGED << markov_stats, start_letter, prev_proba1,
                    pc, hist, steps, visited, reloads, order >>

\* ------------------------------------------------------------ line parsing

\* A line of the statistics file is the sequence of its pieces: a digit, a
\* minus sign, a blank, the texts "=proba1", "=proba2", "[", "]", "*256+",
\* or another character ("x").  (The newline that ends a line is removed by
\* strip() and is left out.)
Digits == {"0", "1", "7", "8", "9"}

DigitValue(d) ==
    CASE d = "0" -> 0 [] d = "1" -> 1 [] d = "7" -> 7 [] d = "8" -> 8
      [] d = "9" -> 9

\* str.strip()
RECURSIVE Strip(_)
Strip(s) ==
    IF s = << >> THEN s
    ELSE IF Head(s) = " " THEN Strip(Tail(s))
    ELSE IF Last(s) = " " THEN Strip(ButLast(s))
    ELSE s

\* The first index at or after k where sep occurs in s, or 0.
RECURSIVE Find(_, _, _)
Find(s, sep, k) ==
    IF k + Len(sep) - 1 > Len(s) THEN 0
    ELSE IF SubSeq(s, k, k + Len(sep) - 1) = sep THEN k
    ELSE Find(s, sep, k + 1)

\* sep in s
Contains(s, sep) == Find(s, sep, 1) # 0

\* s.split(sep)
RECURSIVE Split(_, _)
Split(s, sep) ==
    LET i == Find(s, sep, 1)
    IN  IF i = 0
        THEN << s >>
        ELSE << SubSeq(s, 1, i - 1) >>
             \o Split(SubSeq(s, i + Len(sep), Len(s)), sep)

\* The value of a run of digits, most significant first.
RECURSIVE Decimal(_)
Decimal(s) ==
    IF s = << >> THEN 0 ELSE 10 * Decimal(ButLast(s)) + DigitValue(Last(s))

\* int(s): blanks around the number are ignored, a minus sign may lead, and
\* at least one digit must follow; anything else raises ValueError (ok is
\* FALSE).
ParseInt(s) ==
    LET t == Strip(s)
        negative == t # << >> /\ Head(t) = "-"
        digits == IF negative THEN Tail(t) ELSE t
    IN  IF digits = << >> \/ \E k \in 1 .. Len(digits) : digits[k] \notin Digits
        THEN [ ok |-> FALSE, value |-> 0 ]
        ELSE [ ok |-> TRUE,
               value |-> IF negative THEN 0 - Decimal(digits)
                                     ELSE Decimal(digits) ]

\* chr(n) is defined for 0 <= n <= 0x10FFFF.
ValidChr(n) == 0 <= n /\ n <= 1114111

\* chr(n): a different character for every code point.
Chr(n) ==
    IF n = 97 THEN "a" ELSE IF n = 98 THEN "b" ELSE "chr" \o ToString(n)

\* An exception inside the try block (ValueError, IndexError).
ParseError == [ kind |-> "error", letter1 |-> None, letter2 |-> None, prob |-> 0 ]

\* What the loop body of load_markov_stats makes of one line, up to the
\* point where it touches markov_stats.
ParseLine(line) ==
    IF Contains(line, << "=proba1" >>)
    THEN LET results == Split(Strip(line), << "=proba1", "[" >>)
         IN  IF Len(results) < 2 THEN ParseError
             ELSE LET code == ParseInt(ButLast(results[2]))
                      prob == ParseInt(results[1])
                  IN  IF ~code.ok \/ ~ValidChr(code.value) \/ ~prob.ok
                      THEN ParseError
                      ELSE [ kind |-> "proba1", letter1 |-> Chr(code.value),
                             letter2 |-> None, prob |-> prob.value ]
    ELSE IF Contains(line, << "=proba2" >>)
    THEN LET results == Split(Strip(line), << "=proba2", "[" >>)
             prob == ParseInt(results[1])
         IN  IF ~prob.ok \/ Len(results) < 2 THEN ParseError
             ELSE LET parts == Split(results[2], << "*256+" >>)
                      code1 == ParseInt(parts[1])
                  IN  IF ~code1.ok \/ ~ValidChr(code1.value) \/ Len(parts) < 2
                      THEN ParseError
                      ELSE LET code2 == ParseInt(ButLast(parts[2]))
                           IN  IF ~code2.ok \/ ~ValidChr(code2.value)
                               THEN ParseError
                               ELSE [ kind |-> "proba2",
                                      letter1 |-> Chr(code1.value),
                                      letter2 |-> Chr(code2.value),
                                      prob |-> prob.value ]
    ELSE [ kind |-> "invalid", letter1 |-> None, letter2 |-> None, prob |-> 0 ]

\* One iteration of `for line in file`: the line is parsed and stored, or
\* the load ends with `return None` (an invalid line, or an exception
\* caught by the except clause) and __init__ raises.
ReadLine(line) ==
    LET rec == ParseLine(line)
    IN  CASE rec.kind = "proba1" -> LoadProba1(rec.letter1, rec.prob)
          [] rec.kind = "proba2" ->
                LoadProba2(rec.letter1, rec.letter2, rec.prob)
          [] OTHER -> LoadInvalid

\* ----------------------------------------------------------------- sessions

\* LevelHolder with the level kept on the cracker (self.guess_level), which
\* every session shares.
LevelHolderSelf(i) == Self

\* The object next_guess reads and writes guess_level on: the markov_index
\* it is handed (never the cracker's own self.guess_level).
LevelHolder(i) == i

\* The cursor next_guess sees for session i.
View(i) == [objs[i] EXCEPT !.guess_level = objs[LevelHolder(i)].guess_level]

\* The objects after next_guess has left cursor mi behind for session i.
Store(i, mi) ==
    [ o \in Objects |->
        IF o = i
        THEN [mi EXCEPT !.guess_level =
                 IF LevelHolder(i) = i THEN mi.guess_level
                                       ELSE objs[i].guess_level]
        ELSE IF o = LevelHolder(i)
             THEN [objs[o] EXCEPT !.guess_level = mi.guess_level]
             ELSE objs[o] ]

\* The outcome of one piece of next_guess: the cursor it leaves, where the
\* call stands, and what it returned ("" while it is still running).
Running(mi, at) == [ mi |-> mi, pc |-> at, out |-> "" ]

Return(mi, value) == [ mi |-> mi, pc |-> "idle", out |-> value ]

\* A failed dictionary lookup: KeyError leaves next_guess.
Raise(mi) == Return(mi, KeyError)

\* InRange with the lower comparison strict: a level equal to min_level is
\* taken for one that is still too low.
InRangeAboveMin(mi, level) == level > mi.min_level /\ level <= mi.max_level

\* level >= min_level and level <= max_level
InRange(mi, level) == level >= mi.min_level /\ level <= mi.max_level

\* next_guess up to its first `while True`: start the chain off when
\* guess is None, and return the start letter if it is in range.
Begin(mi) ==
    IF mi.guess = NoGuess
    THEN LET seeded == [mi EXCEPT !.guess = << start_letter >>]
         IN  IF start_letter \notin DOMAIN markov_stats
             THEN Raise(seeded)
             ELSE LET level == markov_stats[start_letter].probability
                      first == [seeded EXCEPT !.guess_level = level]
                  IN  IF InRange(first, level)
                      THEN Return(first, Join(first.guess))
                      ELSE Running(first, "dig")
    ELSE Running(mi, "dig")

\* DigDeeper with the "dug too deep" test taken first and made at
\* cur_level >= max_level: a child exactly at max_level is pruned.
DigDeeperPrunesAtMax(mi) ==
    LET prev_letter == Last(mi.guess)
    IN  IF prev_letter \notin DOMAIN markov_stats
        THEN Raise(mi)
        ELSE
        LET cur_letter == markov_stats[prev_letter].first_child
        IN  IF cur_letter = None
            THEN Running(mi, "widen")
            ELSE
            LET cur_level ==
                    mi.guess_level
                    + markov_stats[prev_letter].following_letters[cur_letter].probability
                deeper == [mi EXCEPT !.guess = Append(mi.guess, cur_letter),
                                     !.guess_level = cur_level]
            IN  IF cur_level >= mi.max_level
                THEN Running(mi, "widen")
                ELSE IF InRange(mi, cur_level)
                     THEN Return(deeper, Join(deeper.guess))
                     ELSE Running(deeper, "dig")

\* DigDeeper with the append moved above the tests: a child that is too
\* deep is left on the path when dig_deeper gives up.
DigDeeperAppendsFirst(mi) ==
    LET prev_letter == Last(mi.guess)
    IN  IF prev_letter \notin DOMAIN markov_stats
        THEN Raise(mi)
        ELSE
        LET cur_letter == markov_stats[prev_letter].first_child
        IN  IF cur_letter = None
            THEN Running(mi, "widen")
            ELSE
            LET cur_level ==
                    mi.guess_level
                    + markov_stats[prev_letter].following_letters[cur_letter].probability
                deeper == [mi EXCEPT !.guess = Append(mi.guess, cur_letter),
                                     !.guess_level = cur_level]
            IN  IF InRange(mi, cur_level)
                THEN Return(deeper, Join(deeper.guess))
                ELSE IF cur_level > mi.max_level
                     THEN Running(deeper, "widen")
                     ELSE Running(deeper, "dig")

\* One iteration of dig_deeper's loop.  "widen" is `return None`.
DigDeeper(mi) ==
    LET prev_letter == Last(mi.guess)
    IN  IF prev_letter \notin DOMAIN markov_stats
        THEN Raise(mi)
        ELSE
        LET cur_letter == markov_stats[prev_letter].first_child
        IN  IF cur_letter = None
            THEN Running(mi, "widen")
            ELSE
            LET cur_level ==
                    mi.guess_level
                    + markov_stats[prev_letter].following_letters[cur_letter].probability
                deeper == [mi EXCEPT !.guess = Append(mi.guess, cur_letter),
                                     !.guess_level = cur_level]
            IN  IF InRange(mi, cur_level)
                THEN Return(deeper, Join(deeper.guess))
                ELSE IF cur_level > mi.max_level
                     THEN Running(mi, "widen")
                     ELSE Running(deeper, "dig")

\* DigWiderBase with the next letter's level only compared, never stored:
\* guess_level keeps the value the previous letter left.
DigWiderBaseKeepsLevel(mi, parent_letter) ==
    IF parent_letter \notin DOMAIN markov_stats
    THEN Raise(mi)
    ELSE
    LET cur_letter == markov_stats[parent_letter].next
    IN  IF cur_letter = None
        THEN Return([mi EXCEPT !.guess = NoGuess], None)
        ELSE IF cur_letter \notin DOMAIN markov_stats
        THEN Raise(mi)
        ELSE
        LET level == markov_stats[cur_letter].probability
            wider == [mi EXCEPT !.guess = SetLast(mi.guess, cur_letter)]
        IN  IF level > mi.max_level
            THEN Return([mi EXCEPT !.guess = NoGuess], None)
            ELSE IF InRange(mi, level)
                 THEN Return(wider, Join(wider.guess))
                 ELSE Running(wider, "dig")

\* dig_wider_base with a top-level letter above max_level passed over: the
\* traversal moves onto it and goes on to the letters after it.
DigWiderBasePassesOver(mi, parent_letter) ==
    IF parent_letter \notin DOMAIN markov_stats
    THEN Raise(mi)
    ELSE
    LET cur_letter == markov_stats[parent_letter].next
    IN  IF cur_letter = None
        THEN Return([mi EXCEPT !.guess = NoGuess], None)
        ELSE IF cur_letter \notin DOMAIN markov_stats
        THEN Raise(mi)
        ELSE
        LET level == markov_stats[cur_letter].probability
            moved == [mi EXCEPT !.guess_level = level]
            wider == [moved EXCEPT !.guess = SetLast(mi.guess, cur_letter)]
        IN  IF level > mi.max_level
            THEN Running(wider, "widen")
            ELSE IF InRange(mi, level)
                 THEN Return(wider, Join(wider.guess))
                 ELSE Running(wider, "dig")

\* dig_wider_base, with what next_guess does with its (more_work, ret_value).
DigWiderBase(mi, parent_letter) ==
    IF parent_letter \notin DOMAIN markov_stats
    THEN Raise(mi)
    ELSE
    LET cur_letter == markov_stats[parent_letter].next
    IN  IF cur_letter = None
        THEN Return([mi EXCEPT !.guess = NoGuess], None)
        ELSE IF cur_letter \notin DOMAIN markov_stats
        THEN Raise(mi)
        ELSE
        LET level == markov_stats[cur_letter].probability
            moved == [mi EXCEPT !.guess_level = level]
            wider == [moved EXCEPT !.guess = SetLast(mi.guess, cur_letter)]
        IN  IF level > mi.max_level
            THEN Return([moved EXCEPT !.guess = NoGuess], None)
            ELSE IF InRange(mi, level)
                 THEN Return(wider, Join(wider.guess))
                 ELSE Running(wider, "dig")

\* DigWider without the update of guess_level "to account for the missing
\* children": the popped letter's probability is never taken off.
DigWiderKeepsLevel(mi, parent_letter) ==
    LET prev_letter == mi.guess[Len(mi.guess) - 1]
        siblings == markov_stats[prev_letter].following_letters
        level == mi.guess_level
        backed == [mi EXCEPT !.guess_level = level]
        cur_letter == siblings[parent_letter].next
    IN  IF cur_letter = None
        THEN Running([backed EXCEPT !.guess = ButLast(mi.guess)], "widen")
        ELSE
        LET cur_level == level + siblings[cur_letter].probability
            moved == [mi EXCEPT !.guess_level = cur_level,
                                !.guess = SetLast(mi.guess, cur_letter)]
        IN  IF InRange(mi, cur_level)
            THEN Return(moved, Join(moved.guess))
            ELSE IF cur_level < mi.max_level
                 THEN Running(moved, "dig")
                 ELSE Running([backed EXCEPT !.guess = ButLast(mi.guess)],
                              "widen")

\* DigWider with a sibling above max_level passed over: the traversal moves
\* onto it and goes on to the siblings after it instead of backing out.
DigWiderPassesOver(mi, parent_letter) ==
    LET prev_letter == mi.guess[Len(mi.guess) - 1]
        siblings == markov_stats[prev_letter].following_letters
        level == mi.guess_level - siblings[parent_letter].probability
        backed == [mi EXCEPT !.guess_level = level]
        cur_letter == siblings[parent_letter].next
    IN  IF cur_letter = None
        THEN Running([backed EXCEPT !.guess = ButLast(mi.guess)], "widen")
        ELSE
        LET cur_level == level + siblings[cur_letter].probability
            moved == [mi EXCEPT !.guess_level = cur_level,
                                !.guess = SetLast(mi.guess, cur_letter)]
        IN  IF InRange(mi, cur_level)
            THEN Return(moved, Join(moved.guess))
            ELSE IF cur_level < mi.max_level
                 THEN Running(moved, "dig")
                 ELSE Running(moved, "widen")

\* One iteration of next_guess's inner `while True` at length > 1.
DigWider(mi, parent_letter) ==
    LET prev_letter == mi.guess[Len(mi.guess) - 1]
        siblings == markov_stats[prev_letter].following_letters
        level == mi.guess_level - siblings[parent_letter].probability
        backed == [mi EXCEPT !.guess_level = level]
        cur_letter == siblings[parent_letter].next
    IN  IF cur_letter = None
        THEN Running([backed EXCEPT !.guess = ButLast(mi.guess)], "widen")
        ELSE
        LET cur_level == level + siblings[cur_letter].probability
            moved == [mi EXCEPT !.guess_level = cur_level,
                                !.guess = SetLast(mi.guess, cur_letter)]
        IN  IF InRange(mi, cur_level)
            THEN Return(moved, Join(moved.guess))
            ELSE IF cur_level < mi.max_level
                 THEN Running(moved, "dig")
                 ELSE Running([backed EXCEPT !.guess = ButLast(mi.guess)],
                              "widen")

\* One iteration of next_guess's inner `while True`.
BackOut(mi) ==
    LET parent_letter == Last(mi.guess)
    IN  IF Len(mi.guess) = 1
        THEN DigWiderBase(mi, parent_letter)
        ELSE DigWider(mi, parent_letter)

\* ------------------------------------------------------------------ actions

\* The state a piece of next_guess leaves for session i.
Leave(i, r) ==
    /\ objs' = Store(i, r.mi)
    /\ pc' = [pc EXCEPT ![i] = r.pc]
    /\ hist' = [hist EXCEPT ![i] = IF r.out = "" THEN @ ELSE Append(@, r.out)]
    /\ steps' = [steps EXCEPT ![i] = IF r.pc = "idle" THEN 0 ELSE @ + 1]
    /\ UNCHANGED << model_vars, reloads >>

\* MarkovIndex(min_level, max_level): a new session.
NewSession(i, min_level, max_level) ==
    /\ phase = "ready"
    /\ pc[i] = "none"
    /\ objs' = [objs EXCEPT ![i] = MarkovIndex(min_level, max_level)]
    /\ pc' = [pc EXCEPT ![i] = "idle"]
    /\ UNCHANGED << model_vars, hist, steps, visited, reloads, order >>

\* next_guess(markov_index) is called and runs up to its first loop.  The
\* program is single-threaded: a call starts only when no other is running.
CallNextGuess(i) ==
    /\ pc[i] = "idle"
    /\ \A j \in Sessions : pc[j] \in {"none", "idle"}
    /\ Len(hist[i]) < MaxCalls
    /\ Leave(i, Begin(View(i)))
    /\ order' = Append(order, i)
    /\ UNCHANGED visited

\* One iteration of dig_deeper.
StepDigDeeper(i) ==
    /\ pc[i] = "dig"
    /\ steps[i] < MaxSteps
    /\ LET mi == View(i)
           r == DigDeeper(mi)
       IN  /\ Leave(i, r)
           /\ visited' = [visited EXCEPT ![i] =
                  IF r.pc = "dig"
                  THEN @ \cup { << Last(mi.guess), mi.guess_level >> }
                  ELSE {}]
           /\ UNCHANGED order

\* One iteration of the loop that backs out and tries other letters.
StepBackOut(i) ==
    /\ pc[i] = "widen"
    /\ steps[i] < MaxSteps
    /\ Leave(i, BackOut(View(i)))
    /\ UNCHANGED << visited, order >>

\* The cursor is persisted and reloaded between two calls: the MarkovCracker
\* is constructed again from the same statistics, which sets its own session
\* fields anew, and the cursor is replaced by a new MarkovIndex with the
\* same bounds, given the saved guess and guess_level.
Reload(i) ==
    /\ pc[i] = "idle"
    /\ Cardinality(reloads[i]) < MaxReloads
    /\ Len(hist[i]) \notin reloads[i]
    /\ objs' = [objs EXCEPT
                  ![Self] = SelfSession,
                  ![i] = [MarkovIndex(objs[i].min_level, objs[i].max_level)
                            EXCEPT !.guess = objs[i].guess,
                                   !.guess_level = objs[i].guess_level]]
    /\ reloads' = [reloads EXCEPT ![i] = @ \cup {Len(hist[i])}]
    /\ UNCHANGED << model_vars, pc, hist, steps, visited, order >>

Init ==
    /\ markov_stats = EmptyDict
    /\ start_letter = None
    /\ prev_proba1 = None
    /\ phase = "loading"
    /\ objs = [o \in Objects |-> SelfSession]
    /\ pc = [i \in Sessions |-> "none"]
    /\ hist = [i \in Sessions |-> << >>]
    /\ steps = [i \in Sessions |-> 0]
    /\ visited = [i \in Sessions |-> {}]
    /\ reloads = [i \in Sessions |-> {}]
    /\ order = << >>

\* The following letters letter1 already has.
Children(letter1) ==
    IF letter1 \in DOMAIN markov_stats
    THEN DOMAIN markov_stats[letter1].following_letters
    ELSE {}

\* A statistics file in which no letter has two proba1 lines and no pair of
\* letters has two proba2 lines.
LoadLine ==
    \/ \E letter \in Letters \ DOMAIN markov_stats, prob \in Probs :
          LoadProba1(letter, prob)
    \/ \E letter1 \in Letters, prob \in Probs :
          \E letter2 \in Letters \ Children(letter1) :
             LoadProba2(letter1, letter2, prob)
    \/ LoadInvalid
    \/ OpenFails
    \/ LoadDone

\* One session against the loaded statistics.
Next ==
    \/ LoadLine
    \/ \E min_level \in Levels, max_level \in Levels :
          NewSession(1, min_level, max_level)
    \/ CallNextGuess(1)
    \/ StepDigDeeper(1)
    \/ StepBackOut(1)

Spec == Init /\ [][Next]_vars

\* A statistics file that may repeat a proba2 line for the same pair of
\* letters.
LoadLineRepeating ==
    \/ \E letter \in Letters \ DOMAIN markov_stats, prob \in Probs :
          LoadProba1(letter, prob)
    \/ \E letter1 \in Letters, letter2 \in Letters, prob \in Probs :
          LoadProba2(letter1, letter2, prob)
    \/ LoadInvalid
    \/ OpenFails
    \/ LoadDone

NextRepeating ==
    \/ LoadLineRepeating
    \/ \E min_level \in Levels, max_level \in Levels :
          NewSession(1, min_level, max_level)
    \/ CallNextGuess(1)
    \/ StepDigDeeper(1)
    \/ StepBackOut(1)

SpecRepeating == Init /\ [][NextRepeating]_vars

\* The statistics file of the concrete scenario: unigrams a=0, b=5 in that
\* order, then bigrams a->a=0, a->b=3.
ScenarioFile ==
    << [ kind |-> "proba1", letter1 |-> "a", letter2 |-> None, prob |-> 0 ],
       [ kind |-> "proba1", letter1 |-> "b", letter2 |-> None, prob |-> 5 ],
       [ kind |-> "proba2", letter1 |-> "a", letter2 |-> "a", prob |-> 0 ],
       [ kind |-> "proba2", letter1 |-> "a", letter2 |-> "b", prob |-> 3 ] >>

\* The bounds of the scenario's session.
ScenarioBounds == [ min_level |-> 0, max_level |-> 3 ]

ScenarioLevels == 0 .. ScenarioBounds.max_level

\* The lines of ScenarioFile read so far: each adds a node or an edge of a.
LinesRead == Cardinality(DOMAIN markov_stats) + Cardinality(Children("a"))

\* The next line of ScenarioFile, or the end of the file after any line.
LoadScenarioLine ==
    \/ /\ LinesRead < Len(ScenarioFile)
       /\ LET line == ScenarioFile[LinesRead + 1]
          IN  IF line.kind = "proba1"
              THEN LoadProba1(line.letter1, line.prob)
              ELSE LoadProba2(line.letter1, line.letter2, line.prob)
    \/ LoadDone

\* Sessions against the scenario's file, or against a file that ends after
\* one of its lines.
NextScenario ==
    \/ LoadScenarioLine
    \/ \E min_level \in ScenarioLevels, max_level \in ScenarioLevels :
          NewSession(1, min_level, max_level)
    \/ CallNextGuess(1)
    \/ StepDigDeeper(1)
    \/ StepBackOut(1)

SpecScenario == Init /\ [][NextScenario]_vars

\* In runs with two sessions each is called at most MaxSharedCalls times.
MaxSharedCalls == 3

\* A statistics file whose proba2 lines all start from the first letter of
\* the file.
LoadLineFromStart ==
    \/ \E letter \in Letters \ DOMAIN markov_stats, prob \in Probs :
          LoadProba1(letter, prob)
    \/ \E letter2 \in Letters \ Children(start_letter), prob \in Probs :
          /\ start_letter # None
          /\ LoadProba2(start_letter, letter2, prob)
    \/ LoadDone

\* Two sessions share one MarkovCracker: their next_guess calls interleave
\* in any order.
NextShared ==
    \/ LoadLineFromStart
    \/ \E i \in Sessions, min_level \in Levels, max_level \in Levels :
          /\ min_level <= max_level
          /\ NewSession(i, min_level, max_level)
    \/ \E i \in Sessions :
          /\ Len(hist[i]) < MaxSharedCalls
          /\ CallNextGuess(i)
    \/ \E i \in Sessions : StepDigDeeper(i)
    \/ \E i \in Sessions : StepBackOut(i)

SpecShared == Init /\ [][NextShared]_vars

\* One session whose cursor may be persisted and reloaded between calls.
NextReload ==
    \/ LoadLine
    \/ \E min_level \in Levels, max_level \in Levels :
          NewSession(1, min_level, max_level)
    \/ CallNextGuess(1)
    \/ StepDigDeeper(1)
    \/ StepBackOut(1)
    \/ Reload(1)

SpecReload == Init /\ [][NextReload]_vars

\* The texts of the probabilities and of the code points (of a and b) in the
\* lines explored.
ProbTexts == { << "0" >>, << "1" >> }

CodeTexts == { << "9", "7" >>, << "9", "8" >> }

\* Probability=proba1[ORD_REP1]
UnigramLine(prob, code) == prob \o << "=proba1", "[" >> \o code \o << "]" >>

\* Probability=proba2[ORD_REP1*256+ORD_REP2]
BigramLine(prob, code1, code2) ==
    prob \o << "=proba2", "[" >> \o code1 \o << "*256+" >> \o code2 \o << "]" >>

FormatLines ==
    { UnigramLine(p, c) : p \in ProbTexts, c \in CodeTexts }
    \cup { BigramLine(p, c[1], c[2]) :
              p \in ProbTexts, c \in CodeTexts \X CodeTexts }

RemoveAt(s, k) == SubSeq(s, 1, k - 1) \o SubSeq(s, k + 1, Len(s))

InsertAt(s, k, t) == SubSeq(s, 1, k) \o << t >> \o SubSeq(s, k + 1, Len(s))

\* The lines a statistics file may hold: the lines of the format, the same
\* with one piece missing, with a stray character somewhere, or with a blank
\* at either end, and the empty line.
Lines ==
    FormatLines
    \cup { RemoveAt(l[1], l[2]) :
              l \in { x \in FormatLines \X (1 .. 9) : x[2] <= Len(x[1]) } }
    \cup { InsertAt(l[1], l[2], l[3]) :
              l \in { x \in FormatLines \X (0 .. 9) \X {"x", "-", "]"} :
                         x[2] <= Len(x[1]) } }
    \cup { << " " >> \o l : l \in FormatLines }
    \cup { l \o << " " >> : l \in FormatLines }
    \cup { << >> }

\* A file is followed until its model holds MaxEntries nodes and edges.
MaxEntries == 2

RECURSIVE EdgeCount(_)
EdgeCount(letters) ==
    IF letters = {} THEN 0
    ELSE LET c == CHOOSE x \in letters : TRUE
         IN  Cardinality(DOMAIN markov_stats[c].following_letters)
             + EdgeCount(letters \ {c})

Entries == Cardinality(DOMAIN markov_stats) + EdgeCount(DOMAIN markov_stats)

\* A statistics file read as text, line by line.
LoadTextLine ==
    \/ \E line \in Lines :
          /\ Entries < MaxEntries
          /\ ReadLine(line)
    \/ OpenFails
    \/ LoadDone

\* One session against statistics loaded from text.
NextLines ==
    \/ LoadTextLine
    \/ \E min_level \in Levels, max_level \in Levels :
          NewSession(1, min_level, max_level)
    \/ CallNextGuess(1)
    \/ StepDigDeeper(1)
    \/ StepBackOut(1)

SpecLines == Init /\ [][NextLines]_vars

\* The characters of statistics files with up to three siblings.
WideLetters == {"a", "b", "c"}

\* A statistics file over three characters whose proba2 lines all start
\* from the first letter of the file, none repeated.
LoadLineWide ==
    \/ \E letter \in WideLetters \ DOMAIN markov_stats, prob \in Probs :
          LoadProba1(letter, prob)
    \/ \E letter2 \in WideLetters \ Children(start_letter), prob \in Probs :
          /\ start_letter # None
          /\ LoadProba2(start_letter, letter2, prob)
    \/ LoadDone

\* One session against statistics with up to three siblings.
NextWide ==
    \/ LoadLineWide
    \/ \E min_level \in Levels, max_level \in Levels :
          NewSession(1, min_level, max_level)
    \/ CallNextGuess(1)
    \/ StepDigDeeper(1)
    \/ StepBackOut(1)

SpecWide == Init /\ [][NextWide]_vars

\* --------------------------------------------------------- reference notions

\* Strings considered by the exhaustive reference have at most MaxPathLen
\* characters.
MaxPathLen == 4

\* All strings over Letters of exactly n characters, as letter sequences.
RECURSIVE Strings(_)
Strings(n) ==
    IF n = 0 THEN { << >> }
    ELSE { Append(s, c) : s \in Strings(n - 1), c \in Letters }

Candidates == UNION { Strings(n) : n \in 1 .. MaxPathLen }

\* A path of the model: its first character has a unigram entry and every
\* consecutive pair has a bigram entry.
IsPath(path) ==
    /\ path # << >>
    /\ path[1] \in DOMAIN markov_stats
    /\ \A k \in 1 .. Len(path) - 1 :
          /\ path[k] \in DOMAIN markov_stats
          /\ path[k + 1] \in DOMAIN markov_stats[path[k]].following_letters

\* The cumulative level of a path: the start probability of its first
\* character plus the transition probability of each consecutive pair.
RECURSIVE PathLevel(_)
PathLevel(path) ==
    IF Len(path) = 1
    THEN markov_stats[path[1]].probability
    ELSE PathLevel(ButLast(path))
         + markov_stats[path[Len(path) - 1]]
              .following_letters[path[Len(path)]].probability

\* A next_guess call run on its own from the outcome r of its first piece,
\* for at most `fuel` loop iterations.
RECURSIVE RunAlone(_, _)
RunAlone(r, fuel) ==
    IF r.pc = "idle" \/ fuel = 0
    THEN r
    ELSE RunAlone(IF r.pc = "dig" THEN DigDeeper(r.mi) ELSE BackOut(r.mi),
                  fuel - 1)

\* What the first n calls return to a session that starts from cursor mi
\* and is the only one to run.
RECURSIVE AloneFrom(_, _)
AloneFrom(mi, n) ==
    IF n = 0
    THEN << >>
    ELSE LET r == RunAlone(Begin(mi), MaxSteps)
         IN  IF r.pc # "idle"
             THEN << >>
             ELSE << r.out >> \o AloneFrom(r.mi, n - 1)

\* What a fresh session with session i's bounds returns when run alone, for
\* as many calls as session i has completed.
Alone(i) ==
    AloneFrom(MarkovIndex(objs[i].min_level, objs[i].max_level), Len(hist[i]))

IsGuess(value) == value \notin {None, KeyError}

\* The values session i's calls returned.
Returned(i) == { hist[i][k] : k \in 1 .. Len(hist[i]) }

\* A level within session i's bounds, both ends included.
Within(i, level) ==
    objs[i].min_level <= level /\ level <= objs[i].max_level

ValidBounds(i) == pc[i] # "none" /\ objs[i].min_level <= objs[i].max_level

\* Session i's last call was the first to signal exhaustion.
FirstExhausted(i) ==
    /\ hist[i] # << >>
    /\ pc[i] = "idle"
    /\ Last(hist[i]) = None
    /\ \A k \in 1 .. Len(hist[i]) - 1 : hist[i][k] # None

\* Every sibling link of the model leads to a probability at least as high:
\* the top-level chain and every child chain are in non-decreasing order.
ChainsSorted ==
    \A c \in DOMAIN markov_stats :
       LET node == markov_stats[c]
       IN  /\ node.next # None =>
                node.probability <= markov_stats[node.next].probability
           /\ \A d \in DOMAIN node.following_letters :
                 LET edge == node.following_letters[d]
                 IN  edge.next # None =>
                        edge.probability
                           <= node.following_letters[edge.next].probability

\* ------------------------------------------------------------------- claims

\* C1: whenever next_guess has returned a string for a session with
\* min_level <= max_level, the string is the cursor's path and the path's
\* cumulative level (start probability plus the transition probabilities
\* along it) lies within [min_level, max_level].
C1_ReturnedLevelInRange ==
    \A i \in Sessions :
       ( /\ ValidBounds(i)
         /\ pc[i] = "idle"
         /\ hist[i] # << >>
         /\ IsGuess(Last(hist[i])) )
       => /\ Last(hist[i]) = Join(objs[i].guess)
          /\ IsPath(objs[i].guess)
          /\ Within(i, PathLevel(objs[i].guess))

\* A third guess of at least two characters, reached by a move to a sibling,
\* was returned to a session whose min_level is above 0 and below max_level.
C1_Witness ==
    /\ pc[1] = "idle"
    /\ Len(hist[1]) >= 3
    /\ \A k \in 1 .. 3 : IsGuess(hist[1][k])
    /\ Len(objs[1].guess) >= 2
    /\ LET path == objs[1].guess
       IN  markov_stats[path[Len(path) - 1]].first_child # Last(path)
    /\ 0 < objs[1].min_level
    /\ objs[1].min_level < objs[1].max_level

\* The paths of the model of at most MaxPathLen characters whose cumulative
\* level lies within session i's bounds.
InRangePaths(i) ==
    { p \in Candidates : IsPath(p) /\ Within(i, PathLevel(p)) }

\* C2, as claimed: for every model and bounds, when a session first signals
\* exhaustion every path of the model whose cumulative level lies in
\* [min_level, max_level] has been returned.
C2_NoInRangeGuessSkipped ==
    \A i \in Sessions :
       (ValidBounds(i) /\ FirstExhausted(i))
       => \A p \in InRangePaths(i) : Join(p) \in Returned(i)

\* C2, amended: the same, for models whose top-level chain and child chains
\* are in non-decreasing probability order (loaded from a file that repeats
\* no line).
C2_NoInRangeGuessSkippedWhenSorted ==
    \A i \in Sessions :
       (ValidBounds(i) /\ FirstExhausted(i) /\ ChainsSorted)
       => \A p \in InRangePaths(i) : Join(p) \in Returned(i)

\* A session over sorted chains signalled exhaustion after returning at
\* least three guesses, one of them of two characters or more, and some
\* path of the model lies below its min_level.
C2_Witness ==
    /\ ValidBounds(1)
    /\ FirstExhausted(1)
    /\ ChainsSorted
    /\ Cardinality(InRangePaths(1)) >= 3
    /\ \E p \in InRangePaths(1) : Len(p) >= 2
    /\ \E p \in Candidates : IsPath(p) /\ PathLevel(p) < objs[1].min_level
    /\ Cardinality(DOMAIN markov_stats) = 2

\* C4, as claimed: once a call on a session has returned None, every later
\* call on it returns None as well.
C4_ExhaustionPermanent ==
    \A i \in Sessions :
       \A j, k \in 1 .. Len(hist[i]) :
          (j < k /\ hist[i][j] = None) => hist[i][k] = None

\* The dig_deeper of session i is back at a last letter and level it has
\* already dug from within the same call: from there on it repeats itself.
Looping(i) ==
    /\ pc[i] = "dig"
    /\ << Last(View(i).guess), View(i).guess_level >> \in visited[i]

\* C6, as claimed: every next_guess call terminates for every model and
\* every bounds min_level <= max_level, so no call ever returns to a
\* configuration from which its loop repeats forever.
C6_EveryCallTerminates ==
    \A i \in Sessions : ValidBounds(i) => ~Looping(i)

\* Session i has been handed to next_guess.
Called(i) == pc[i] \in {"dig", "widen"} \/ hist[i] # << >>

\* C10, as claimed: no cursor with min_level > max_level, and no cursor
\* over a model without characters, ever reaches next_guess.
C10_InvalidSessionsRejected ==
    \A i \in Sessions :
       Called(i) =>
          /\ objs[i].min_level <= objs[i].max_level
          /\ DOMAIN markov_stats # {}

\* C3, as claimed: until a session first signals exhaustion, no guess string
\* is returned to it twice.
C3_NoGuessTwice ==
    \A i \in Sessions :
       \A j, k \in 1 .. Len(hist[i]) :
          ( /\ j < k
            /\ IsGuess(hist[i][k])
            /\ \A m \in 1 .. k : hist[i][m] # None )
          => hist[i][j] # hist[i][k]

\* The scenario's whole file is loaded.
ScenarioLoaded == phase = "ready" /\ LinesRead = Len(ScenarioFile)

\* Session i has the scenario's bounds.
ScenarioSession(i) ==
    /\ pc[i] # "none"
    /\ objs[i].min_level = ScenarioBounds.min_level
    /\ objs[i].max_level = ScenarioBounds.max_level

\* C5, as claimed: on the scenario's model a session with bounds [0, 3]
\* returns "a", "aa", "ab" and then signals exhaustion.
C5_ScenarioSequence ==
    (ScenarioLoaded /\ ScenarioSession(1))
    => \A k \in 1 .. Len(hist[1]) :
          k <= 4 => hist[1][k] = << "a", "aa", "ab", None >>[k]

\* C5, amended: on the scenario's model a session with bounds [0, 3]
\* returns "a", "aa", "aaa", ...: its k-th call returns the string of k
\* letters a, so it returns neither "ab" nor "b" and does not signal
\* exhaustion.
C5_ScenarioReturnsRunsOfA ==
    (ScenarioLoaded /\ ScenarioSession(1))
    => \A k \in 1 .. Len(hist[1]) :
          hist[1][k] = Join([j \in 1 .. k |-> "a"])

\* The scenario's session has been called four times.
C5_Witness ==
    /\ ScenarioLoaded
    /\ ScenarioSession(1)
    /\ pc[1] = "idle"
    /\ Len(hist[1]) >= 4

\* C7: what next_guess returns depends only on the model and the cursor's
\* four fields: a session whose cursor was replaced, between calls, by a
\* copy holding the same four field values has been returned exactly what a
\* session that keeps its cursor is returned, call for call.
C7_ReloadedCursorContinues ==
    \A i \in Sessions :
       (pc[i] = "idle" /\ reloads[i] # {}) => hist[i] = Alone(i)

\* Session 1 returned two guesses, its cursor was replaced by a copy, and
\* two further calls returned guesses, the last one of two characters or
\* more and reached by a move to a sibling.
C7_Witness ==
    /\ pc[1] = "idle"
    /\ 2 \in reloads[1]
    /\ Len(hist[1]) = 4
    /\ \A k \in 1 .. 4 : IsGuess(hist[1][k])
    /\ Len(objs[1].guess) >= 2
    /\ LET path == objs[1].guess
       IN  markov_stats[path[Len(path) - 1]].first_child # Last(path)

\* C8: two sessions created with the same bounds on the same model have
\* been returned the same values call for call, exhaustion included.
C8_SameBoundsSameSequence ==
    \A i, j \in Sessions :
       ( /\ pc[i] # "none" /\ pc[j] # "none"
         /\ objs[i].min_level = objs[j].min_level
         /\ objs[i].max_level = objs[j].max_level )
       => \A k \in 1 .. Len(hist[i]) :
             k <= Len(hist[j]) => hist[i][k] = hist[j][k]

\* Two sessions with the same bounds have each made three calls, in the
\* order 1, 2, 2, 1, 1, 2, returning two guesses and then None.
C8_Witness ==
    /\ objs[1].min_level = objs[2].min_level
    /\ objs[1].max_level = objs[2].max_level
    /\ order = << 1, 2, 2, 1, 1, 2 >>
    /\ Len(hist[1]) = 3 /\ Len(hist[2]) = 3
    /\ IsGuess(hist[1][1])
    /\ IsGuess(hist[1][2])
    /\ hist[2][3] = None

\* C9: next_guess never changes markov_stats or start_letter, and under any
\* interleaving of the calls of two sessions each session is returned what
\* it is returned when it runs alone.
C9_SessionsDoNotInterfere ==
    /\ [][phase = "ready" => UNCHANGED << markov_stats, start_letter >>]_vars
    /\ [](\A i \in Sessions : pc[i] = "idle" => hist[i] = Alone(i))

\* Two sessions with different bounds were called in the order 1, 2, 1, 2
\* and each was returned two guesses, the second of two characters or more.
C9_Witness ==
    /\ objs[1].min_level # objs[2].min_level
    /\ objs[1].max_level # objs[2].max_level
    /\ order = << 1, 2, 1, 2 >>
    /\ Len(hist[1]) = 2 /\ Len(hist[2]) = 2
    /\ \A i \in Sessions : IsGuess(hist[i][1]) /\ IsGuess(hist[i][2])
    /\ Len(objs[1].guess) >= 2
    /\ Len(objs[2].guess) >= 2

\* s is a non-empty run of digits.
IsNumber(s) == s # << >> /\ \A k \in 1 .. Len(s) : s[k] \in Digits

\* The line, blanks at its ends aside, is <number>=proba1[<number>].
IsUnigramShape(line) ==
    LET t == Strip(line)
    IN  \E k \in 1 .. Len(t) :
           /\ k + 1 < Len(t)
           /\ t[k] = "=proba1" /\ t[k + 1] = "[" /\ Last(t) = "]"
           /\ IsNumber(SubSeq(t, 1, k - 1))
           /\ IsNumber(SubSeq(t, k + 2, Len(t) - 1))

\* The places <<k, m>> of "=proba2" and "*256+" at which the line, blanks at
\* its ends aside, is <number>=proba2[<number>*256+<number>].
BigramPlaces(line) ==
    LET t == Strip(line)
    IN  { p \in (1 .. Len(t)) \X (1 .. Len(t)) :
            /\ p[1] + 1 < p[2] /\ p[2] < Len(t)
            /\ t[p[1]] = "=proba2" /\ t[p[1] + 1] = "["
            /\ t[p[2]] = "*256+" /\ Last(t) = "]"
            /\ IsNumber(SubSeq(t, 1, p[1] - 1))
            /\ IsNumber(SubSeq(t, p[1] + 2, p[2] - 1))
            /\ IsNumber(SubSeq(t, p[2] + 1, Len(t) - 1)) }

IsBigramShape(line) == BigramPlaces(line) # {}

\* The antecedent character of a line of the bigram shape.
Antecedent(line) ==
    LET t == Strip(line)
        p == CHOOSE x \in BigramPlaces(line) : TRUE
    IN  Chr(Decimal(SubSeq(t, p[1] + 2, p[2] - 1)))

\* A record of neither shape, or a bigram record whose antecedent has no
\* node yet.
BadRecord(line) ==
    IF IsBigramShape(line)
    THEN Antecedent(line) \notin DOMAIN markov_stats
    ELSE ~IsUnigramShape(line)

\* C11, as claimed: reading a record of neither shape, or a bigram record
\* whose antecedent was not declared by an earlier unigram record, ends the
\* load in failure (load_markov_stats returns None and the constructor
\* raises), and after a failed load no session is ever run on the model.
C11_BadRecordsAbort ==
    /\ [][\A line \in Lines :
             (BadRecord(line) /\ ReadLine(line)) => phase' = "failed"]_vars
    /\ [](phase = "failed" => \A i \in Sessions : pc[i] = "none")

\* Session i has bounds [0, 0] on a model whose first letter has start
\* probability 0.
BoundaryCase(i) ==
    /\ pc[i] # "none"
    /\ objs[i].min_level = 0 /\ objs[i].max_level = 0
    /\ start_letter \in DOMAIN markov_stats
    /\ markov_stats[start_letter].probability = 0

\* C12, as claimed: in a session with min_level = max_level = 0 on a model
\* whose first letter has start probability 0, the first call returns that
\* letter and the second call signals exhaustion.
C12_BoundaryEquality ==
    \A i \in Sessions :
       BoundaryCase(i) =>
          /\ Len(hist[i]) >= 1 => hist[i][1] = start_letter
          /\ Len(hist[i]) >= 2 => hist[i][2] = None

\* What the second call returns in the boundary case: the first letter with
\* its first child if that child's transition probability is 0; if not, the
\* next letter of the top-level chain if its start probability is 0; if
\* not, None.
BoundarySecond ==
    LET node == markov_stats[start_letter]
    IN  IF /\ node.first_child # None
           /\ node.following_letters[node.first_child].probability = 0
        THEN start_letter \o node.first_child
        ELSE IF /\ node.next # None
                /\ markov_stats[node.next].probability = 0
             THEN node.next
             ELSE None

\* C12, amended: the first call returns the first letter; the second call
\* signals exhaustion exactly when neither the first letter's first child
\* nor the next letter of the top-level chain is at level 0, and returns
\* that level-0 guess otherwise.
C12_BoundaryEqualityUnlessLevelZeroFollows ==
    \A i \in Sessions :
       BoundaryCase(i) =>
          /\ Len(hist[i]) >= 1 => hist[i][1] = start_letter
          /\ Len(hist[i]) >= 2 => hist[i][2] = BoundarySecond

\* A boundary session was returned its first letter and then None, on a
\* model where that letter has a child and a next letter, both above level 0.
C12_Witness ==
    /\ BoundaryCase(1)
    /\ pc[1] = "idle"
    /\ Len(hist[1]) = 2
    /\ hist[1][2] = None
    /\ markov_stats[start_letter].first_child # None
    /\ markov_stats[start_letter].next # None

\* The first k letters of session i's path.
Prefix(i, k) == SubSeq(objs[i].guess, 1, k)

MaxGuessLen == 7

GuessStrings == UNION { Strings(n) : n \in 1 .. MaxGuessLen }

\* The sibling chain under `parent` (the top-level chain for None): each
\* letter's 'next'.
NextIn(parent) ==
    IF parent = None
    THEN [ c \in DOMAIN markov_stats |-> markov_stats[c].next ]
    ELSE [ c \in DOMAIN markov_stats[parent].following_letters |->
              markov_stats[parent].following_letters[c].next ]

\* y is met after x when the chain is walked from x, within `fuel` links.
RECURSIVE Follows(_, _, _, _)
Follows(chain, x, y, fuel) ==
    /\ fuel > 0
    /\ x \in DOMAIN chain
    /\ chain[x] # None
    /\ \/ chain[x] = y
       \/ Follows(chain, chain[x], y, fuel - 1)

\* s comes strictly before t in trie pre-order by construction order: t
\* extends s, or where they first differ the letter of s is earlier in the
\* sibling chain concerned.
Precedes(s, t) ==
    \/ Len(s) < Len(t) /\ SubSeq(t, 1, Len(s)) = s
    \/ \E k \in 1 .. Len(s) :
          /\ k <= Len(t)
          /\ SubSeq(s, 1, k - 1) = SubSeq(t, 1, k - 1)
          /\ s[k] # t[k]
          /\ LET chain == NextIn(IF k = 1 THEN None ELSE s[k - 1])
             IN  Follows(chain, s[k], t[k], Cardinality(DOMAIN chain))

\* C14, as claimed: within a session (from its creation until it first
\* signals exhaustion) each returned string comes strictly after the one
\* returned before it, in trie pre-order by construction order.
C14_StrictPreOrder ==
    \A i \in Sessions :
       LET n == Len(hist[i])
       IN  ( /\ pc[i] = "idle"
             /\ n >= 2
             /\ \A k \in 1 .. n : IsGuess(hist[i][k]) )
           => \A prev \in GuessStrings :
                 Join(prev) = hist[i][n - 1] => Precedes(prev, objs[i].guess)

\* C15: whenever next_guess has returned a guess, the returned string is
\* the concatenation of markov_index.guess and markov_index.guess_level is
\* the start probability of guess[0] plus the transition probabilities of
\* its consecutive pairs.
C15_CursorMatchesGuess ==
    \A i \in Sessions :
       ( /\ pc[i] = "idle"
         /\ hist[i] # << >>
         /\ IsGuess(Last(hist[i])) )
       => /\ Last(hist[i]) = Join(objs[i].guess)
          /\ objs[i].guess_level = PathLevel(objs[i].guess)

\* A guess of two letters or more was returned after a longer one: the
\* traversal backed out of a deeper level and moved to a sibling.
C15_Witness ==
    /\ pc[1] = "idle"
    /\ Len(hist[1]) >= 4
    /\ \A k \in 1 .. Len(hist[1]) : IsGuess(hist[1][k])
    /\ Len(objs[1].guess) >= 2
    /\ Len(hist[1][Len(hist[1]) - 1]) > Len(objs[1].guess)
    /\ objs[1].guess_level > 0

\* The chain of siblings the last letter of session i's path stands in.
SiblingsOf(i) ==
    markov_stats[objs[i].guess[Len(objs[i].guess) - 1]].following_letters

\* The cumulative level of session i's path with its last letter replaced
\* by sibling c.
SiblingLevel(i, c) ==
    PathLevel(ButLast(objs[i].guess)) + SiblingsOf(i)[c].probability

\* Session i is about to back out at path length > 1 and the sibling after
\* its last letter is above max_level.
NextSiblingOverLimit(i) ==
    /\ pc[i] = "widen"
    /\ Len(objs[i].guess) > 1
    /\ LET c == SiblingsOf(i)[Last(objs[i].guess)].next
       IN  c # None /\ SiblingLevel(i, c) > objs[i].max_level

\* A sibling after the over-limit one is at most at max_level.
LaterSiblingFits(i) ==
    LET chain == NextIn(objs[i].guess[Len(objs[i].guess) - 1])
        over == SiblingsOf(i)[Last(objs[i].guess)].next
    IN  \E c \in DOMAIN chain :
           /\ Follows(chain, over, c, Cardinality(DOMAIN chain))
           /\ SiblingLevel(i, c) <= objs[i].max_level

AtTopLevel(i) == pc[i] = "widen" /\ Len(objs[i].guess) = 1

\* The session of i has ended in this step: the cursor is absent and the
\* call has signalled exhaustion.
EndsSession(i) ==
    /\ objs'[i].guess = NoGuess
    /\ pc'[i] = "idle"
    /\ hist'[i] = Append(hist[i], None)

\* C17: at path length 1, the step to the next top-level letter ends the
\* session (cursor absent, exhaustion signalled) when there is no next
\* letter or when its start probability exceeds max_level, whatever
\* letters follow it; returns the letter when its start probability is in
\* range; and descends from it when its start probability is below
\* min_level.
C17_TopLevelAdvance ==
    [][\A i \in Sessions :
          AtTopLevel(i) =>
          LET cur_letter == markov_stats[objs[i].guess[1]].next
          IN  IF cur_letter = None
              THEN EndsSession(i)
              ELSE
              LET level == markov_stats[cur_letter].probability
              IN  /\ level > objs[i].max_level => EndsSession(i)
                  /\ (objs[i].min_level <= level /\ level <= objs[i].max_level)
                     => /\ objs'[i].guess = << cur_letter >>
                        /\ pc'[i] = "idle"
                        /\ hist'[i] = Append(hist[i], cur_letter)
                  /\ (level < objs[i].min_level /\ level <= objs[i].max_level)
                     => /\ objs'[i].guess = << cur_letter >>
                        /\ pc'[i] = "dig"
                        /\ hist'[i] = hist[i]]_vars

\* The call after the guess x has ended the session because the top-level
\* letter y after x is above max_level, although the letter z after y is in
\* range.
C17_Witness ==
    /\ ValidBounds(1)
    /\ pc[1] = "idle"
    /\ objs[1].guess = NoGuess
    /\ Len(hist[1]) >= 2
    /\ Last(hist[1]) = None
    /\ \E x, y, z \in DOMAIN markov_stats :
          /\ hist[1][Len(hist[1]) - 1] = x
          /\ markov_stats[x].first_child = None
          /\ markov_stats[x].next = y
          /\ markov_stats[y].next = z
          /\ markov_stats[y].probability > objs[1].max_level
          /\ InRange(objs[1], markov_stats[z].probability)

\* The letters met when the chain is walked from c until None, at most
\* `fuel` of them.
RECURSIVE Walk(_, _, _)
Walk(chain, c, fuel) ==
    IF c = None \/ fuel = 0 \/ c \notin DOMAIN chain
    THEN << >>
    ELSE << c >> \o Walk(chain, chain[c], fuel - 1)

\* The walk from `first` ends with None right after `last` and visits every
\* key of the chain exactly once.
WalkCoversOnce(chain, first, last) ==
    LET walk == Walk(chain, first, Cardinality(DOMAIN chain) + 1)
    IN  /\ Len(walk) = Cardinality(DOMAIN chain)
        /\ { walk[k] : k \in 1 .. Len(walk) } = DOMAIN chain
        /\ IF walk = << >> THEN last = None ELSE Last(walk) = last

\* C18, as claimed: after loading unigram records of unique characters and
\* bigram records of declared antecedents, a pair possibly repeated, the
\* walk over every node's child chain, and the walk over the top-level
\* chain, ends with None right after the last link and visits every key
\* exactly once.
C18_ChainsCoverKeysOnce ==
    phase = "ready" =>
       /\ WalkCoversOnce(NextIn(None), start_letter, prev_proba1)
       /\ \A c \in DOMAIN markov_stats :
             WalkCoversOnce(NextIn(c), markov_stats[c].first_child,
                            markov_stats[c].last_child)

\* C19, as claimed: with statistics of at least one unigram record, every
\* character in a session's cursor path has its own node in markov_stats,
\* and no next_guess() call ends with a lookup failure, whatever bigram
\* records the statistics hold.
C19_NoLookupFailure ==
    start_letter # None =>
    \A i \in Sessions :
       /\ \A k \in 1 .. Len(objs[i].guess) :
             objs[i].guess[k] \in DOMAIN markov_stats
       /\ KeyError \notin Returned(i)

\* Every transition probability of the model is at least 1.
TransitionsPositive ==
    \A c \in DOMAIN markov_stats :
       \A d \in DOMAIN markov_stats[c].following_letters :
          markov_stats[c].following_letters[d].probability >= 1

\* Every bigram's subsequent character has a unigram record.
SubsequentsDeclared ==
    \A c \in DOMAIN markov_stats :
       DOMAIN markov_stats[c].following_letters \subseteq DOMAIN markov_stats

\* The statistics are loaded, in non-decreasing probability order, with
\* transition probabilities of at least 1 and a unigram record for every
\* subsequent character, and session i has bounds 0 <= min_level <=
\* max_level.
WellFormed(i) ==
    /\ phase = "ready"
    /\ ChainsSorted
    /\ TransitionsPositive
    /\ SubsequentsDeclared
    /\ ValidBounds(i)
    /\ 0 <= objs[i].min_level

\* The calls of session i up to and including the first that signalled
\* exhaustion (all of them if none did).
FirstRun(i) ==
    LET ends == { k \in 1 .. Len(hist[i]) : hist[i][k] = None }
    IN  IF ends = {}
        THEN hist[i]
        ELSE SubSeq(hist[i], 1,
                    CHOOSE k \in ends : \A j \in ends : k <= j)

\* C20: over statistics loaded in non-decreasing probability order, with
\* every transition probability at least 1, a unigram record for every
\* bigram's subsequent and no record repeated, and bounds 0 <= min_level <=
\* max_level: no call of a session repeats itself forever; until the first
\* exhaustion every returned value is a guess or the exhaustion signal, no
\* string is returned twice and every string returned is a model path with
\* cumulative level in [min_level, max_level]; and when the session first
\* signals exhaustion the strings returned are exactly those paths.
C20_ExactlyTheInRangePaths ==
    \A i \in Sessions :
       WellFormed(i) =>
          LET run == FirstRun(i)
              paths == { Join(p) : p \in InRangePaths(i) }
          IN  /\ ~Looping(i)
              /\ \A k \in 1 .. Len(run) : run[k] = None \/ run[k] \in paths
              /\ \A j, k \in 1 .. Len(run) : j < k => run[j] # run[k]
              /\ FirstExhausted(i) => Returned(i) \ {None} = paths

\* The same for statistics of at least one unigram record.
ExactlyTheInRangePathsOfNonEmptyModels ==
    start_letter # None => C20_ExactlyTheInRangePaths

\* A session over well-formed statistics of two characters, both with
\* children, has signalled exhaustion after returning at least three
\* strings, one of three characters, having passed over a path below
\* min_level.
ExhaustedOverWellFormedModel ==
    /\ WellFormed(1)
    /\ FirstExhausted(1)
    /\ Cardinality(InRangePaths(1)) >= 3
    /\ \E p \in InRangePaths(1) : Len(p) >= 3
    /\ \E p \in Candidates : IsPath(p) /\ PathLevel(p) < objs[1].min_level
    /\ \A c \in Letters :
          /\ c \in DOMAIN markov_stats
          /\ markov_stats[c].first_child # None

====
